---- MODULE Spec2Model ----
(***************************************************************************)
(* Model of the RTK-over-I2C movement sensor (package gpsrtkpmtk):         *)
(* the correction relay task receiveAndWriteI2C with connect and           *)
(* getStream, the shutdown operation Close, and the facade reads           *)
(* (Position, LinearVelocity, ...) that consult LastError and the last     *)
(* position cache.  One relay task, one Close call and one facade caller   *)
(* run concurrently; every blocking call is a step of its own.             *)
(***************************************************************************)
EXTENDS Integers, Sequences, FiniteSets, TLC

\* ---------------------------------------------------------------- bounds
\* largest configured ntrip_connect_attempts explored (0..MaxAttempts)
MaxAttempts == 2
\* number of correction streams the caster hands out in one run
MaxStreams == 2
\* TCP connections the VRS caster accepts
MaxConns == 2
\* len(buffer) of getGGAMessage, 1024 in the source, scaled down
BufferLen == 4

\* ------------------------------------------------------------ error values
Nil == "nil"
\* fmt.Sprintf("Can't connect to NTRIP caster after %d attempts", maxAttempts)
ConnectErr(n) == "Can't connect to NTRIP caster after " \o ToString(n) \o " attempts"
CanceledErr == "Canceled"
ContextCanceled == "context canceled"
IcyErr == "ICY"
NoHostErr == "no such host"
OpenErr == "open handle failed"
WriteErr == "handle write failed"
HandleCloseErr == "handle close failed"
ReadErr == "stream read failed"
ScanErr == "scanner error"
NmeaCloseErr == "nmea close failed"
StreamCloseErr == "stream close failed"
EOF == "EOF"
DialErr == "dial failed"
FlushErr == "flush failed"
GGANotFoundErr == "GGA message not found in the received data"
CorrectionReadErr == "correction read failed"
SensorErr == "sensor error"

\* ------------------------------------------------------------------ state
VARIABLES
    cancelled,      \* cancelCtx is done
    activeBackgroundWorkers, \* wait-group counter
    ntripMu,        \* holder of ntripMu: "free", "relay", "close"
    Client,         \* ntripClient.Client: "nil" or "client"
    Stream,         \* ntripClient.Stream: 0 = nil, else the stream's id
    ntripStatus,    \* streaming-status flag
    lastError,      \* g.err: the LastError slots, oldest first
    lastposition,   \* g.lastposition: the cached point, NilPoint when empty
    maxConnectAttempts, \* ntripClient.MaxConnectAttempts (configuration)
    nStreams,       \* streams handed out by the caster so far
    closedStreams,  \* ids of the streams that have been closed
    openHandles,    \* I2C handles opened and not yet closed
    rpc,            \* position of the relay task
    outerErr,       \* receiveAndWriteI2C's function-scope err
    attempts,       \* loop counter of connect / getStream
    success,        \* getStream's success flag
    rc,             \* getStream's rc (0 = nil)
    gsErr,          \* getStream's err
    gsFrom,         \* who called getStream: "init" or "loop"
    scanner,        \* stream the TeeReader / scanner reads from (0 = none)
    msg,            \* result of scanner.NextMessage: "nil" or "msg"
    unwritten,      \* msg holds a message delivered without error that no
                    \* handle has been given
    panicked,       \* the relay task ended in a recovered panic
    cpc,            \* position of the Close call
    closeRet,       \* value returned by Close
    fpc,            \* position of the facade caller: "idle", "sensor", "ret"
    fop,            \* the facade operation in progress
    fret,           \* what the facade operation returned
    frep,           \* what the underlying sensor reported to this call
    validFixSeen,   \* a Position call has returned a valid fix before
    isConnected,    \* rtkSerial.isConnected
    rw,             \* rtkSerial.rw: 0 = nil, else the id of its TCP connection
    urlMutex,       \* rtkSerial.urlMutex: "free" or "held"
    vpc,            \* position of the sendGGAMessage caller
    conn,           \* connectToVirtualBase's conn / rw (0 = none)
    nConns,         \* TCP connections dialed so far
    okSeen,         \* connections on which a 200 OK status line was read
    vret,           \* what the last sendGGAMessage call returned
    line,           \* sendGGAMessage's line, as words (<<>> = none read)
    connErr,        \* connectToVirtualBase's err
    buffer,         \* getGGAMessage's buffer[:totalBytesRead]
    ggaMessage      \* sendGGAMessage's ggaMessage

sharedVars == <<cancelled, activeBackgroundWorkers, ntripMu, Client, Stream,
                ntripStatus, lastError, lastposition, maxConnectAttempts,
                nStreams, closedStreams, openHandles>>
relayVars == <<rpc, outerErr, attempts, success, rc, gsErr, gsFrom, scanner, msg,
               unwritten, panicked>>
closeVars == <<cpc, closeRet>>
facadeVars == <<fpc, fop, fret, frep, validFixSeen>>
i2cVars == <<sharedVars, relayVars, closeVars, facadeVars>>
vrsVars == <<isConnected, rw, urlMutex, vpc, conn, nConns, okSeen, vret, line,
             connErr, buffer, ggaMessage>>
vars == <<sharedVars, relayVars, closeVars, facadeVars, vrsVars>>

\* ---------------------------------------------------------- LastError
\* movementsensor.NewLastError(size, threshold) as called by makeRTKI2C
LastErrorSize == 1
LastErrorThreshold == 1

NewLastError == [i \in 1..LastErrorSize |-> Nil]

\* Set drops the oldest slot and appends err (nil included)
LastErrorSet(errs, e) == Append(Tail(errs), e)

RECURSIVE LatestNonNil(_, _)
LatestNonNil(errs, i) ==
    IF i = 0 THEN Nil
    ELSE IF errs[i] # Nil THEN errs[i] ELSE LatestNonNil(errs, i - 1)

\* Get returns the most recent non-nil error once enough slots are non-nil
LastErrorGet(errs) ==
    IF Cardinality({i \in 1..Len(errs) : errs[i] # Nil}) < LastErrorThreshold
    THEN Nil
    ELSE LatestNonNil(errs, Len(errs))

\* errors.Is(err, context.Canceled)
IsContextCanceled(e) == e = ContextCanceled

\* ------------------------------------------------------- LastPosition
\* geographic points as <<latitude, longitude>>
NaNPoint == <<"NaN", "NaN">>
ZeroPoint == <<"0", "0">>
P1 == <<"40.7", "-73.98">>
P2 == <<"51.5", "-0.12">>
\* a nil *geo.Point
NilPoint == <<"nil", "nil">>

\* LastPosition.IsZeroPosition
IsZeroPosition(p) == p[1] = "0" /\ p[2] = "0"

\* LastPosition.IsPositionNaN
IsPositionNaN(p) == p[1] = "NaN" \/ p[2] = "NaN"

\* LastPosition.GetLastPosition: the stored point, or nil when never set
GetLastPosition(cache) == cache

\* ----------------------------------------------- the underlying sensor
\* what nmeamovementsensor.Position can report: point, altitude, error
PositionReports ==
    { [val |-> P1, alt |-> "50.5", err |-> Nil],
      [val |-> P2, alt |-> "12.5", err |-> Nil],
      [val |-> ZeroPoint, alt |-> "0", err |-> Nil],
      [val |-> NaNPoint, alt |-> "NaN", err |-> Nil],
      [val |-> NilPoint, alt |-> "0", err |-> SensorErr],
      [val |-> ZeroPoint, alt |-> "0", err |-> SensorErr],
      [val |-> NaNPoint, alt |-> "NaN", err |-> SensorErr] }

PassthroughOps == {"LinearVelocity", "AngularVelocity", "Orientation",
                   "CompassHeading"}

\* r3.Vector{}, spatialmath.AngularVelocity{}, NewZeroOrientation(), 0
ZeroValue(op) == <<op, "zero">>

\* what the underlying sensor can report for a passthrough quantity
SensorReports(op) ==
    { [val |-> <<op, "reading">>, alt |-> "-", err |-> Nil],
      [val |-> ZeroValue(op), alt |-> "-", err |-> SensorErr] }

NoRet == [val |-> <<"-", "-">>, alt |-> "-", err |-> Nil]

\* sendGGAMessage has not returned yet
NoVrsRet == [rw |-> 0, err |-> "-"]

\* ------------------------------------------------------------------- Init
Init ==
    /\ cancelled = FALSE
    /\ activeBackgroundWorkers = 1
    /\ ntripMu = "free"
    /\ Client = "nil"
    /\ Stream = 0
    /\ ntripStatus = FALSE
    /\ lastError = NewLastError
    /\ lastposition = NilPoint
    /\ maxConnectAttempts \in 0..MaxAttempts
    /\ nStreams = 0
    /\ closedStreams = {}
    /\ openHandles = 0
    /\ rpc = "entry"
    /\ outerErr = Nil
    /\ attempts = 0
    /\ success = FALSE
    /\ rc = 0
    /\ gsErr = Nil
    /\ gsFrom = "init"
    /\ scanner = 0
    /\ msg = "nil"
    /\ unwritten = FALSE
    /\ panicked = FALSE
    /\ cpc = "idle"
    /\ closeRet = Nil
    /\ fpc = "idle"
    /\ fop = "none"
    /\ fret = NoRet
    /\ frep = NoRet
    /\ validFixSeen = FALSE
    /\ isConnected = FALSE
    /\ rw = 0
    /\ urlMutex = "free"
    /\ vpc = "idle"
    /\ conn = 0
    /\ nConns = 0
    /\ okSeen = {}
    /\ vret = NoVrsRet
    /\ line = <<>>
    /\ connErr = Nil
    /\ buffer = <<>>
    /\ ggaMessage = <<>>

\* ------------------------------------------------------------ relay task
\* the deferred activeBackgroundWorkers.Done() of receiveAndWriteI2C
RelayDone ==
    /\ rpc' = "done"
    /\ activeBackgroundWorkers' = activeBackgroundWorkers - 1

\* g.err.Set(e); return
RelayFail(e) ==
    /\ lastError' = LastErrorSet(lastError, e)
    /\ RelayDone

\* a nil dereference: utils.PanicCapturingGo recovers it, the deferred
\* Done still runs
RelayPanic ==
    /\ panicked' = TRUE
    /\ RelayDone

\* RelayEntry whose early return skips the deferred Done
RelayEntryNoDone ==
    /\ rpc = "entry"
    /\ IF cancelled
       THEN /\ rpc' = "done"
            /\ UNCHANGED <<attempts, activeBackgroundWorkers>>
       ELSE /\ rpc' = "connect"
            /\ attempts' = 0
            /\ UNCHANGED activeBackgroundWorkers
    /\ UNCHANGED <<cancelled, ntripMu, Client, Stream, ntripStatus, lastError,
                   lastposition, maxConnectAttempts, nStreams, closedStreams,
                   openHandles, outerErr, success, rc, gsErr, gsFrom, scanner,
                   msg, unwritten, panicked, closeVars, facadeVars,
                   vrsVars>>

\* receiveAndWriteI2C: the early return when the context is already done
RelayEntry ==
    /\ rpc = "entry"
    /\ IF cancelled
       THEN /\ RelayDone
            /\ UNCHANGED attempts
       ELSE /\ rpc' = "connect"
            /\ attempts' = 0
            /\ UNCHANGED activeBackgroundWorkers
    /\ UNCHANGED <<cancelled, ntripMu, Client, Stream, ntripStatus, lastError,
                   lastposition, maxConnectAttempts, nStreams, closedStreams,
                   openHandles, outerErr, success, rc, gsErr, gsFrom, scanner,
                   msg, unwritten, panicked, closeVars, facadeVars,
                   vrsVars>>

\* ConnectAttempt whose failure ends the task without g.err.Set
ConnectAttemptNoLatch ==
    /\ rpc = "connect"
    /\ IF attempts < maxConnectAttempts
       THEN /\ \E ok \in BOOLEAN :
                 IF ok
                 THEN rpc' = "connect_set" /\ UNCHANGED attempts
                 ELSE attempts' = attempts + 1 /\ UNCHANGED rpc
            /\ UNCHANGED <<outerErr, lastError, activeBackgroundWorkers>>
       ELSE /\ outerErr' = ConnectErr(maxConnectAttempts)
            /\ RelayDone
            /\ UNCHANGED <<attempts, lastError>>
    /\ UNCHANGED <<cancelled, ntripMu, Client, Stream, ntripStatus,
                   lastposition, maxConnectAttempts, nStreams, closedStreams,
                   openHandles, success, rc, gsErr, gsFrom, scanner, msg,
                   unwritten, panicked, closeVars, facadeVars,
                   vrsVars>>

\* ConnectAttempt with the loop bound off by one (attempts <= maxAttempts)
ConnectAttemptOffByOne ==
    /\ rpc = "connect"
    /\ IF attempts <= maxConnectAttempts
       THEN /\ \E ok \in BOOLEAN :
                 IF ok
                 THEN rpc' = "connect_set" /\ UNCHANGED attempts
                 ELSE attempts' = attempts + 1 /\ UNCHANGED rpc
            /\ UNCHANGED <<outerErr, lastError, activeBackgroundWorkers>>
       ELSE /\ outerErr' = ConnectErr(maxConnectAttempts)
            /\ RelayFail(ConnectErr(maxConnectAttempts))
            /\ UNCHANGED attempts
    /\ UNCHANGED <<cancelled, ntripMu, Client, Stream, ntripStatus,
                   lastposition, maxConnectAttempts, nStreams, closedStreams,
                   openHandles, success, rc, gsErr, gsFrom, scanner, msg, unwritten,
                   panicked, closeVars, facadeVars,
                   vrsVars>>

\* connect: one ntrip.NewClient attempt, or the error after the loop
ConnectAttempt ==
    /\ rpc = "connect"
    /\ IF attempts < maxConnectAttempts
       THEN /\ \E ok \in BOOLEAN :
                 IF ok
                 THEN rpc' = "connect_set" /\ UNCHANGED attempts
                 ELSE attempts' = attempts + 1 /\ UNCHANGED rpc
            /\ UNCHANGED <<outerErr, lastError, activeBackgroundWorkers>>
       ELSE /\ outerErr' = ConnectErr(maxConnectAttempts)
            /\ RelayFail(ConnectErr(maxConnectAttempts))
            /\ UNCHANGED attempts
    /\ UNCHANGED <<cancelled, ntripMu, Client, Stream, ntripStatus,
                   lastposition, maxConnectAttempts, nStreams, closedStreams,
                   openHandles, success, rc, gsErr, gsFrom, scanner, msg, unwritten,
                   panicked, closeVars, facadeVars,
                   vrsVars>>

\* connect: store the client under ntripMu and return g.err.Get()
ConnectSetClient ==
    /\ rpc = "connect_set"
    /\ ntripMu = "free"
    /\ Client' = "client"
    /\ outerErr' = LastErrorGet(lastError)
    /\ IF LastErrorGet(lastError) = Nil
       THEN rpc' = "alive" /\ UNCHANGED <<lastError, activeBackgroundWorkers>>
       ELSE RelayFail(LastErrorGet(lastError))
    /\ UNCHANGED <<cancelled, ntripMu, Stream, ntripStatus, lastposition,
                   maxConnectAttempts, nStreams, closedStreams, openHandles,
                   attempts, success, rc, gsErr, gsFrom, scanner, msg, unwritten, panicked,
                   closeVars, facadeVars,
                   vrsVars>>

\* g.ntripClient.Client.IsCasterAlive(), read without the lock
RelayIsCasterAlive ==
    /\ rpc = "alive"
    /\ IF Client = "nil"
       THEN RelayPanic
       ELSE rpc' = "open0" /\ UNCHANGED <<panicked, activeBackgroundWorkers>>
    /\ UNCHANGED <<cancelled, ntripMu, Client, Stream, ntripStatus, lastError,
                   lastposition, maxConnectAttempts, nStreams, closedStreams,
                   openHandles, outerErr, attempts, success, rc, gsErr, gsFrom,
                   scanner, msg, unwritten, closeVars, facadeVars,
                   vrsVars>>

\* the first g.bus.OpenHandle(g.addr); the handle is not closed later
RelayOpenHandle0 ==
    /\ rpc = "open0"
    /\ \E ok \in BOOLEAN :
          IF ok
          THEN /\ openHandles' = openHandles + 1
               /\ outerErr' = Nil
               /\ rpc' = "cmd251"
               /\ UNCHANGED <<lastError, activeBackgroundWorkers>>
          ELSE /\ outerErr' = OpenErr
               /\ RelayFail(OpenErr)
               /\ UNCHANGED openHandles
    /\ UNCHANGED <<cancelled, ntripMu, Client, Stream, ntripStatus,
                   lastposition, maxConnectAttempts, nStreams, closedStreams,
                   attempts, success, rc, gsErr, gsFrom, scanner, msg, unwritten, panicked,
                   closeVars, facadeVars,
                   vrsVars>>

\* RelayCmd251 treating a failed baud-rate command as fatal
RelayCmd251Fatal ==
    /\ rpc = "cmd251"
    /\ \E ok \in BOOLEAN :
          IF ok
          THEN /\ outerErr' = Nil
               /\ rpc' = "cmd314"
               /\ UNCHANGED <<lastError, activeBackgroundWorkers>>
          ELSE /\ outerErr' = WriteErr
               /\ RelayFail(WriteErr)
    /\ UNCHANGED <<cancelled, ntripMu, Client, Stream, ntripStatus,
                   lastposition, maxConnectAttempts, nStreams, closedStreams,
                   openHandles, attempts, success, rc, gsErr, gsFrom, scanner,
                   msg, unwritten, panicked, closeVars, facadeVars,
                   vrsVars>>

\* handle.Write(ctx, cmd251): a failure is only logged
RelayCmd251 ==
    /\ rpc = "cmd251"
    /\ \E ok \in BOOLEAN : outerErr' = (IF ok THEN Nil ELSE WriteErr)
    /\ rpc' = "cmd314"
    /\ UNCHANGED <<sharedVars, attempts, success, rc, gsErr, gsFrom, scanner,
                   msg, unwritten, panicked, closeVars, facadeVars,
                   vrsVars>>

\* entry of getStream: its locals
GetStreamCall(from) ==
    /\ rpc' = "gs_loop"
    /\ attempts' = 0
    /\ success' = FALSE
    /\ rc' = 0
    /\ gsErr' = Nil
    /\ gsFrom' = from

\* handle.Write(ctx, cmd314): fatal on failure
RelayCmd314 ==
    /\ rpc = "cmd314"
    /\ \E ok \in BOOLEAN :
          IF ok
          THEN /\ outerErr' = Nil
               /\ rpc' = "cmd220"
               /\ UNCHANGED <<lastError, activeBackgroundWorkers>>
          ELSE /\ outerErr' = WriteErr
               /\ RelayFail(WriteErr)
    /\ UNCHANGED <<cancelled, ntripMu, Client, Stream, ntripStatus,
                   lastposition, maxConnectAttempts, nStreams, closedStreams,
                   openHandles, attempts, success, rc, gsErr, gsFrom, scanner,
                   msg, unwritten, panicked, closeVars, facadeVars,
                   vrsVars>>

\* handle.Write(ctx, cmd220): fatal on failure, then getStream is called
RelayCmd220 ==
    /\ rpc = "cmd220"
    /\ \E ok \in BOOLEAN :
          IF ok
          THEN /\ outerErr' = Nil
               /\ GetStreamCall("init")
               /\ UNCHANGED <<lastError, activeBackgroundWorkers>>
          ELSE /\ outerErr' = WriteErr
               /\ RelayFail(WriteErr)
               /\ UNCHANGED <<attempts, success, rc, gsErr, gsFrom>>
    /\ UNCHANGED <<cancelled, ntripMu, Client, Stream, ntripStatus,
                   lastposition, maxConnectAttempts, nStreams, closedStreams,
                   openHandles, scanner, msg, unwritten, panicked, closeVars, facadeVars,
                   vrsVars>>

\* getStream returned e # nil to receiveAndWriteI2C: g.err.Set(e); return
GetStreamFail(e) ==
    /\ outerErr' = (IF gsFrom = "init" THEN e ELSE outerErr)
    /\ RelayFail(e)

\* GetStreamLoop that treats every error after the loop like the ICY one
GetStreamLoopAttachOnError ==
    /\ rpc = "gs_loop"
    /\ IF ~success /\ attempts < maxConnectAttempts
       THEN IF cancelled
            THEN GetStreamFail(CanceledErr)
            ELSE /\ rpc' = "gs_lock"
                 /\ UNCHANGED <<outerErr, lastError, activeBackgroundWorkers>>
       ELSE /\ rpc' = "gs_attach"
            /\ UNCHANGED <<outerErr, lastError, activeBackgroundWorkers>>
    /\ UNCHANGED <<cancelled, ntripMu, Client, Stream, ntripStatus,
                   lastposition, maxConnectAttempts, nStreams, closedStreams,
                   openHandles, attempts, success, rc, gsErr, gsFrom, scanner,
                   msg, unwritten, panicked, closeVars, facadeVars,
                   vrsVars>>

\* GetStreamLoop without the cancellation check
GetStreamLoopNoCancel ==
    /\ rpc = "gs_loop"
    /\ IF ~success /\ attempts < maxConnectAttempts
       THEN /\ rpc' = "gs_lock"
            /\ UNCHANGED <<outerErr, lastError, activeBackgroundWorkers>>
       ELSE IF gsErr # Nil /\ gsErr # IcyErr
            THEN GetStreamFail(gsErr)
            ELSE /\ rpc' = "gs_attach"
                 /\ UNCHANGED <<outerErr, lastError, activeBackgroundWorkers>>
    /\ UNCHANGED <<cancelled, ntripMu, Client, Stream, ntripStatus,
                   lastposition, maxConnectAttempts, nStreams, closedStreams,
                   openHandles, attempts, success, rc, gsErr, gsFrom, scanner,
                   msg, unwritten, panicked, closeVars, facadeVars,
                   vrsVars>>

\* getStream: loop condition, cancellation check, and the error check
\* after the loop
GetStreamLoop ==
    /\ rpc = "gs_loop"
    /\ IF ~success /\ attempts < maxConnectAttempts
       THEN IF cancelled
            THEN GetStreamFail(CanceledErr)
            ELSE /\ rpc' = "gs_lock"
                 /\ UNCHANGED <<outerErr, lastError, activeBackgroundWorkers>>
       ELSE IF gsErr # Nil /\ gsErr # IcyErr
            THEN GetStreamFail(gsErr)
            ELSE /\ rpc' = "gs_attach"
                 /\ UNCHANGED <<outerErr, lastError, activeBackgroundWorkers>>
    /\ UNCHANGED <<cancelled, ntripMu, Client, Stream, ntripStatus,
                   lastposition, maxConnectAttempts, nStreams, closedStreams,
                   openHandles, attempts, success, rc, gsErr, gsFrom, scanner,
                   msg, unwritten, panicked, closeVars, facadeVars,
                   vrsVars>>

\* getStream: g.ntripMu.Lock() in the request closure
GetStreamLock ==
    /\ rpc = "gs_lock"
    /\ ntripMu = "free"
    /\ ntripMu' = "relay"
    /\ rpc' = "gs_req"
    /\ UNCHANGED <<cancelled, activeBackgroundWorkers, Client, Stream,
                   ntripStatus, lastError, lastposition, maxConnectAttempts,
                   nStreams, closedStreams, openHandles, outerErr, attempts,
                   success, rc, gsErr, gsFrom, scanner, msg, unwritten, panicked,
                   closeVars, facadeVars,
                   vrsVars>>

\* getStream: g.ntripClient.Client.GetStream(mountPoint) under ntripMu,
\* the deferred Unlock, success flag and attempts++
GetStreamRequest ==
    /\ rpc = "gs_req"
    /\ ntripMu' = "free"
    /\ IF Client = "nil"
       THEN /\ RelayPanic
            /\ UNCHANGED <<nStreams, rc, gsErr, success, attempts>>
       ELSE /\ \/ /\ nStreams < MaxStreams
                  /\ nStreams' = nStreams + 1
                  /\ rc' = nStreams + 1
                  /\ gsErr' = Nil
                  /\ success' = TRUE
               \/ /\ \E e \in {IcyErr, NoHostErr} : gsErr' = e
                  /\ rc' = 0
                  /\ UNCHANGED <<nStreams, success>>
            /\ attempts' = attempts + 1
            /\ rpc' = "gs_loop"
            /\ UNCHANGED <<panicked, activeBackgroundWorkers>>
    /\ UNCHANGED <<cancelled, Client, Stream, ntripStatus, lastError,
                   lastposition, maxConnectAttempts, closedStreams, openHandles,
                   outerErr, gsFrom, scanner, msg, unwritten, closeVars, facadeVars,
                   vrsVars>>

\* getStream: attach rc under ntripMu and return g.err.Get()
GetStreamAttach ==
    /\ rpc = "gs_attach"
    /\ ntripMu = "free"
    /\ Stream' = rc
    /\ IF LastErrorGet(lastError) = Nil
       THEN /\ rpc' = "read"
            /\ outerErr' = (IF gsFrom = "init" THEN Nil ELSE outerErr)
            /\ UNCHANGED <<lastError, activeBackgroundWorkers>>
       ELSE GetStreamFail(LastErrorGet(lastError))
    /\ UNCHANGED <<cancelled, ntripMu, Client, ntripStatus, lastposition,
                   maxConnectAttempts, nStreams, closedStreams, openHandles,
                   attempts, success, rc, gsErr, gsFrom, scanner, msg, unwritten, panicked,
                   closeVars, facadeVars,
                   vrsVars>>

\* io.TeeReader(g.ntripClient.Stream, w) and g.ntripClient.Stream.Read(buf),
\* both without the lock (after either getStream call)
RelayRead ==
    /\ rpc = "read"
    /\ IF Stream = 0
       THEN /\ RelayPanic
            /\ UNCHANGED <<scanner, outerErr, lastError>>
       ELSE /\ scanner' = Stream
            /\ \E ok \in BOOLEAN :
                 IF ok /\ Stream \notin closedStreams
                 THEN /\ rpc' = "write"
                      /\ outerErr' = (IF gsFrom = "init" THEN Nil ELSE outerErr)
                      /\ UNCHANGED <<lastError, activeBackgroundWorkers>>
                 ELSE /\ outerErr' = (IF gsFrom = "init" THEN ReadErr ELSE outerErr)
                      /\ RelayFail(ReadErr)
            /\ UNCHANGED panicked
    /\ UNCHANGED <<cancelled, ntripMu, Client, Stream, ntripStatus,
                   lastposition, maxConnectAttempts, nStreams, closedStreams,
                   openHandles, attempts, success, rc, gsErr, gsFrom, msg, unwritten,
                   closeVars, facadeVars,
                   vrsVars>>

\* handle.Write(ctx, wI2C) of the first bytes of a new stream
RelayWrite ==
    /\ rpc = "write"
    /\ \E ok \in BOOLEAN :
          IF ok
          THEN /\ rpc' = "status_on"
               /\ outerErr' = (IF gsFrom = "init" THEN Nil ELSE outerErr)
               /\ UNCHANGED <<lastError, activeBackgroundWorkers>>
          ELSE /\ outerErr' = (IF gsFrom = "init" THEN WriteErr ELSE outerErr)
               /\ RelayFail(WriteErr)
    /\ UNCHANGED <<cancelled, ntripMu, Client, Stream, ntripStatus,
                   lastposition, maxConnectAttempts, nStreams, closedStreams,
                   openHandles, attempts, success, rc, gsErr, gsFrom, scanner,
                   msg, unwritten, panicked, closeVars, facadeVars,
                   vrsVars>>

\* scanner = rtcm3.NewScanner(r); ntripStatus = true under ntripMu;
\* in the loop this is followed by continue
RelayStatusOn ==
    /\ rpc = "status_on"
    /\ ntripMu = "free"
    /\ ntripStatus' = TRUE
    /\ rpc' = "loop"
    /\ UNCHANGED <<cancelled, activeBackgroundWorkers, ntripMu, Client, Stream,
                   lastError, lastposition, maxConnectAttempts, nStreams,
                   closedStreams, openHandles, outerErr, attempts, success, rc,
                   gsErr, gsFrom, scanner, msg, unwritten, panicked, closeVars, facadeVars,
                   vrsVars>>

\* RelayLoop without the cancellation check
RelayLoopNoCancel ==
    /\ rpc = "loop"
    /\ IF ~ntripStatus
       THEN RelayDone /\ UNCHANGED lastError
       ELSE rpc' = "open" /\ UNCHANGED <<lastError, activeBackgroundWorkers>>
    /\ UNCHANGED <<cancelled, ntripMu, Client, Stream, ntripStatus,
                   lastposition, maxConnectAttempts, nStreams, closedStreams,
                   openHandles, outerErr, attempts, success, rc, gsErr, gsFrom,
                   scanner, msg, unwritten, panicked, closeVars, facadeVars,
                   vrsVars>>

\* head of the relay cycle: for g.ntripStatus { select <-cancelCtx.Done() }
RelayLoop ==
    /\ rpc = "loop"
    /\ IF ~ntripStatus
       THEN RelayDone /\ UNCHANGED lastError
       ELSE IF cancelled
            THEN RelayFail(outerErr)
            ELSE rpc' = "open" /\ UNCHANGED <<lastError, activeBackgroundWorkers>>
    /\ UNCHANGED <<cancelled, ntripMu, Client, Stream, ntripStatus,
                   lastposition, maxConnectAttempts, nStreams, closedStreams,
                   openHandles, outerErr, attempts, success, rc, gsErr, gsFrom,
                   scanner, msg, unwritten, panicked, closeVars, facadeVars,
                   vrsVars>>

\* g.bus.OpenHandle(g.addr) of one relay cycle
RelayOpenHandle ==
    /\ rpc = "open"
    /\ \E ok \in BOOLEAN :
          IF ok
          THEN /\ openHandles' = openHandles + 1
               /\ rpc' = "next"
               /\ UNCHANGED <<lastError, activeBackgroundWorkers>>
          ELSE /\ RelayFail(OpenErr)
               /\ UNCHANGED openHandles
    /\ UNCHANGED <<cancelled, ntripMu, Client, Stream, ntripStatus,
                   lastposition, maxConnectAttempts, nStreams, closedStreams,
                   outerErr, attempts, success, rc, gsErr, gsFrom, scanner, msg, unwritten,
                   panicked, closeVars, facadeVars,
                   vrsVars>>

\* the results scanner.NextMessage() can give on stream s: <<msg, err>>
NextMessageResults(s) ==
    IF s \in closedStreams
    THEN {<<"nil", ReadErr>>}
    ELSE {<<"msg", Nil>>, <<"nil", ScanErr>>, <<"msg", ScanErr>>}

\* msg, err := scanner.NextMessage(): the blocking read of the stream.
\* No statement of the cycle passes msg to handle.Write.
RelayNextMessage ==
    /\ rpc = "next"
    /\ \E res \in NextMessageResults(scanner) :
          /\ msg' = res[1]
          /\ unwritten' = (res = <<"msg", Nil>>)
          /\ rpc' = (IF res[2] # Nil THEN "status_off" ELSE "close")
    /\ UNCHANGED <<sharedVars, outerErr, attempts, success, rc, gsErr, gsFrom,
                   scanner, panicked, closeVars, facadeVars,
                   vrsVars>>

\* RelayStatusOff treating a scanner error without message as fatal
RelayStatusOffFatal ==
    /\ rpc = "status_off"
    /\ ntripMu = "free"
    /\ ntripStatus' = FALSE
    /\ IF msg = "nil"
       THEN RelayFail(ScanErr)
       ELSE rpc' = "close" /\ UNCHANGED <<lastError, activeBackgroundWorkers>>
    /\ UNCHANGED <<cancelled, ntripMu, Client, Stream, lastposition,
                   maxConnectAttempts, nStreams, closedStreams, openHandles,
                   outerErr, attempts, success, rc, gsErr, gsFrom, scanner, msg, unwritten,
                   panicked, closeVars, facadeVars,
                   vrsVars>>

\* err != nil: ntripStatus = false under ntripMu; with no message the
\* stream is requested again, otherwise control falls to handle.Close
RelayStatusOff ==
    /\ rpc = "status_off"
    /\ ntripMu = "free"
    /\ ntripStatus' = FALSE
    /\ IF msg = "nil"
       THEN GetStreamCall("loop")
       ELSE rpc' = "close" /\ UNCHANGED <<attempts, success, rc, gsErr, gsFrom>>
    /\ UNCHANGED <<cancelled, activeBackgroundWorkers, ntripMu, Client, Stream,
                   lastError, lastposition, maxConnectAttempts, nStreams,
                   closedStreams, openHandles, outerErr, scanner, msg, unwritten, panicked,
                   closeVars, facadeVars,
                   vrsVars>>

\* handle.Close() at the end of a relay cycle
RelayCloseHandle ==
    /\ rpc = "close"
    /\ \E ok \in BOOLEAN :
          IF ok
          THEN /\ openHandles' = openHandles - 1
               /\ rpc' = "loop"
               /\ UNCHANGED <<lastError, activeBackgroundWorkers>>
          ELSE /\ RelayFail(HandleCloseErr)
               /\ UNCHANGED openHandles
    /\ UNCHANGED <<cancelled, ntripMu, Client, Stream, ntripStatus,
                   lastposition, maxConnectAttempts, nStreams, closedStreams,
                   outerErr, attempts, success, rc, gsErr, gsFrom, scanner, msg, unwritten,
                   panicked, closeVars, facadeVars,
                   vrsVars>>

Relay ==
    \/ RelayEntry \/ ConnectAttempt \/ ConnectSetClient \/ RelayIsCasterAlive
    \/ RelayOpenHandle0 \/ RelayCmd251 \/ RelayCmd314 \/ RelayCmd220
    \/ GetStreamLoop \/ GetStreamLock \/ GetStreamRequest \/ GetStreamAttach
    \/ RelayRead \/ RelayWrite \/ RelayStatusOn \/ RelayLoop
    \/ RelayOpenHandle \/ RelayNextMessage \/ RelayStatusOff
    \/ RelayCloseHandle

\* ------------------------------------------------------------------ Close
\* g.ntripMu.Lock(); g.cancelFunc()
CloseBegin ==
    /\ cpc = "idle"
    /\ ntripMu = "free"
    /\ ntripMu' = "close"
    /\ cancelled' = TRUE
    /\ cpc' = "nmea"
    /\ UNCHANGED <<activeBackgroundWorkers, Client, Stream, ntripStatus,
                   lastError, lastposition, maxConnectAttempts, nStreams,
                   closedStreams, openHandles, relayVars, closeRet, facadeVars,
                   vrsVars>>

\* g.nmeamovementsensor.Close(ctx); on error unlock and return it.
\* correctionWriter is never assigned by rtkI2C, so its branch is skipped.
CloseNmea ==
    /\ cpc = "nmea"
    /\ \E ok \in BOOLEAN :
          IF ok
          THEN /\ cpc' = "client"
               /\ UNCHANGED <<ntripMu, closeRet>>
          ELSE /\ ntripMu' = "free"
               /\ closeRet' = NmeaCloseErr
               /\ cpc' = "returned"
    /\ UNCHANGED <<cancelled, activeBackgroundWorkers, Client, Stream,
                   ntripStatus, lastError, lastposition, maxConnectAttempts,
                   nStreams, closedStreams, openHandles, relayVars,
                   facadeVars,
                   vrsVars>>

\* if Client != nil { CloseIdleConnections(); Client = nil }
CloseClient ==
    /\ cpc = "client"
    /\ Client' = "nil"
    /\ cpc' = "stream"
    /\ UNCHANGED <<cancelled, activeBackgroundWorkers, ntripMu, Stream,
                   ntripStatus, lastError, lastposition, maxConnectAttempts,
                   nStreams, closedStreams, openHandles, relayVars, closeRet, facadeVars,
                   vrsVars>>

\* if Stream != nil { Stream.Close(); Stream = nil }; on error unlock and
\* return it
CloseStream ==
    /\ cpc = "stream"
    /\ IF Stream # 0
       THEN \E ok \in BOOLEAN :
               IF ok
               THEN /\ closedStreams' = closedStreams \cup {Stream}
                    /\ Stream' = 0
                    /\ cpc' = "unlock"
                    /\ UNCHANGED <<ntripMu, closeRet>>
               ELSE /\ ntripMu' = "free"
                    /\ closeRet' = StreamCloseErr
                    /\ cpc' = "returned"
                    /\ UNCHANGED <<closedStreams, Stream>>
       ELSE /\ cpc' = "unlock"
            /\ UNCHANGED <<closedStreams, Stream, ntripMu, closeRet>>
    /\ UNCHANGED <<cancelled, activeBackgroundWorkers, Client, ntripStatus,
                   lastError, lastposition, maxConnectAttempts, nStreams,
                   openHandles, relayVars, facadeVars,
                   vrsVars>>

\* g.ntripMu.Unlock() before the wait
CloseUnlock ==
    /\ cpc = "unlock"
    /\ ntripMu' = "free"
    /\ cpc' = "wait"
    /\ UNCHANGED <<cancelled, activeBackgroundWorkers, Client, Stream,
                   ntripStatus, lastError, lastposition, maxConnectAttempts,
                   nStreams, closedStreams, openHandles, relayVars, closeRet, facadeVars,
                   vrsVars>>

\* g.activeBackgroundWorkers.Wait(), then the return value from g.err.Get()
CloseWait ==
    /\ cpc = "wait"
    /\ activeBackgroundWorkers = 0
    /\ closeRet' = (IF LastErrorGet(lastError) # Nil
                       /\ ~IsContextCanceled(LastErrorGet(lastError))
                    THEN LastErrorGet(lastError) ELSE Nil)
    /\ cpc' = "returned"
    /\ UNCHANGED <<sharedVars, relayVars, facadeVars,
                   vrsVars>>

Close ==
    \/ CloseBegin \/ CloseNmea \/ CloseClient \/ CloseStream \/ CloseUnlock
    \/ CloseWait

\* ----------------------------------------------------------------- facade
\* Position whose read of LastError clears the slot
PositionClearsError ==
    /\ fpc = "idle"
    /\ ntripMu = "free"
    /\ fop' = "Position"
    /\ IF LastErrorGet(lastError) # Nil
       THEN /\ fpc' = "ret"
            /\ lastError' = NewLastError
            /\ fret' = (IF GetLastPosition(lastposition) # NilPoint
                        THEN [val |-> GetLastPosition(lastposition),
                              alt |-> "0", err |-> Nil]
                        ELSE [val |-> NaNPoint, alt |-> "NaN",
                              err |-> LastErrorGet(lastError)])
       ELSE /\ fpc' = "sensor"
            /\ UNCHANGED <<fret, lastError>>
    /\ UNCHANGED <<cancelled, activeBackgroundWorkers, ntripMu, Client, Stream,
                   ntripStatus, lastposition, maxConnectAttempts, nStreams,
                   closedStreams, openHandles, relayVars, closeVars, frep,
                   validFixSeen,
                   vrsVars>>

\* Position that ignores the cached point when an error is latched
PositionNoFallback ==
    /\ fpc = "idle"
    /\ ntripMu = "free"
    /\ fop' = "Position"
    /\ IF LastErrorGet(lastError) # Nil
       THEN /\ fpc' = "ret"
            /\ fret' = [val |-> NaNPoint, alt |-> "NaN",
                        err |-> LastErrorGet(lastError)]
       ELSE /\ fpc' = "sensor"
            /\ UNCHANGED fret
    /\ UNCHANGED <<sharedVars, relayVars, closeVars, frep, validFixSeen,
                   vrsVars>>

\* Position up to the delegation: g.err.Get() under ntripMu; with an error
\* latched, the cached point with altitude 0, or the NaN point and the error
Position ==
    /\ fpc = "idle"
    /\ ntripMu = "free"
    /\ fop' = "Position"
    /\ IF LastErrorGet(lastError) # Nil
       THEN /\ fpc' = "ret"
            /\ fret' = (IF GetLastPosition(lastposition) # NilPoint
                        THEN [val |-> GetLastPosition(lastposition),
                              alt |-> "0", err |-> Nil]
                        ELSE [val |-> NaNPoint, alt |-> "NaN",
                              err |-> LastErrorGet(lastError)])
       ELSE /\ fpc' = "sensor"
            /\ UNCHANGED fret
    /\ UNCHANGED <<sharedVars, relayVars, closeVars, frep, validFixSeen,
                   vrsVars>>

\* a sensor report without error whose point is neither (0,0) nor NaN
IsValidFix(rep) ==
    /\ rep.err = Nil
    /\ rep.val # NilPoint
    /\ ~IsZeroPosition(rep.val)
    /\ ~IsPositionNaN(rep.val)

\* PositionResult that takes the altitude 0 when it substitutes for NaN
PositionResultZeroAlt(rep, cache) ==
    IF rep.err # Nil
    THEN IF rep.val # NilPoint
            /\ (IsZeroPosition(rep.val) \/ IsPositionNaN(rep.val))
            /\ GetLastPosition(cache) # NilPoint
         THEN [val |-> GetLastPosition(cache), alt |-> rep.alt, err |-> Nil]
         ELSE [val |-> NaNPoint, alt |-> "NaN", err |-> rep.err]
    ELSE IF IsPositionNaN(rep.val)
         THEN [val |-> GetLastPosition(cache), alt |-> "0", err |-> Nil]
         ELSE [val |-> rep.val, alt |-> rep.alt, err |-> Nil]

\* what Position makes of the sensor's report rep with the given cache
PositionResult(rep, cache) ==
    IF rep.err # Nil
    THEN IF rep.val # NilPoint
            /\ (IsZeroPosition(rep.val) \/ IsPositionNaN(rep.val))
            /\ GetLastPosition(cache) # NilPoint
         THEN [val |-> GetLastPosition(cache), alt |-> rep.alt, err |-> Nil]
         ELSE [val |-> NaNPoint, alt |-> "NaN", err |-> rep.err]
    ELSE IF IsPositionNaN(rep.val)
         THEN [val |-> GetLastPosition(cache), alt |-> rep.alt, err |-> Nil]
         ELSE [val |-> rep.val, alt |-> rep.alt, err |-> Nil]

\* PositionSensor that caches every valid fix and answers a zero or NaN fix
\* from the cache
PositionSensorCaching ==
    /\ fpc = "sensor"
    /\ fop = "Position"
    /\ \E rep \in PositionReports :
          /\ frep' = rep
          /\ lastposition' = (IF IsValidFix(rep) THEN rep.val ELSE lastposition)
          /\ fret' = (IF rep.err = Nil /\ lastposition # NilPoint
                         /\ (IsZeroPosition(rep.val) \/ IsPositionNaN(rep.val))
                      THEN [val |-> lastposition, alt |-> rep.alt, err |-> Nil]
                      ELSE PositionResult(rep, lastposition))
          /\ validFixSeen' = (validFixSeen \/ IsValidFix(rep))
    /\ fpc' = "ret"
    /\ UNCHANGED <<cancelled, activeBackgroundWorkers, ntripMu, Client, Stream,
                   ntripStatus, lastError, maxConnectAttempts, nStreams,
                   closedStreams, openHandles, relayVars, closeVars, fop,
                   vrsVars>>

\* Position from g.nmeamovementsensor.Position(ctx, extra) to its return
PositionSensor ==
    /\ fpc = "sensor"
    /\ fop = "Position"
    /\ \E rep \in PositionReports :
          /\ frep' = rep
          /\ fret' = PositionResult(rep, lastposition)
          /\ validFixSeen' = (validFixSeen \/ IsValidFix(rep))
    /\ fpc' = "ret"
    /\ UNCHANGED <<sharedVars, relayVars, closeVars, fop,
                   vrsVars>>

\* LinearVelocity, AngularVelocity, CompassHeading, Orientation up to the
\* delegation: the zero value and the latched error, or go on to the sensor
Passthrough(op) ==
    /\ fpc = "idle"
    /\ ntripMu = "free"
    /\ fop' = op
    /\ IF LastErrorGet(lastError) # Nil
       THEN /\ fpc' = "ret"
            /\ fret' = [val |-> ZeroValue(op), alt |-> "-",
                        err |-> LastErrorGet(lastError)]
       ELSE /\ fpc' = "sensor"
            /\ UNCHANGED fret
    /\ UNCHANGED <<sharedVars, relayVars, closeVars, frep, validFixSeen,
                   vrsVars>>

LinearVelocity == Passthrough("LinearVelocity")
AngularVelocity == Passthrough("AngularVelocity")
CompassHeading == Passthrough("CompassHeading")
Orientation == Passthrough("Orientation")

\* PassthroughSensor that swallows the sensor's error
PassthroughSensorDropsErr ==
    /\ fpc = "sensor"
    /\ fop \in PassthroughOps
    /\ \E rep \in SensorReports(fop) :
          frep' = rep /\ fret' = [rep EXCEPT !.err = Nil]
    /\ fpc' = "ret"
    /\ UNCHANGED <<sharedVars, relayVars, closeVars, fop, validFixSeen,
                   vrsVars>>

\* return g.nmeamovementsensor.<op>(ctx, extra)
PassthroughSensor ==
    /\ fpc = "sensor"
    /\ fop \in PassthroughOps
    /\ \E rep \in SensorReports(fop) : frep' = rep /\ fret' = rep
    /\ fpc' = "ret"
    /\ UNCHANGED <<sharedVars, relayVars, closeVars, fop, validFixSeen,
                   vrsVars>>

\* the caller takes the result; the next facade call can start
FacadeReturn ==
    /\ fpc = "ret"
    /\ fpc' = "idle"
    /\ fop' = "none"
    /\ fret' = NoRet
    /\ frep' = NoRet
    /\ UNCHANGED <<sharedVars, relayVars, closeVars, validFixSeen,
                   vrsVars>>

\* LastPosition.SetLastPosition(p), called on g.lastposition by the owner
SetLastPosition ==
    /\ \E p \in {P1, P2} : lastposition' = p
    /\ lastposition' # lastposition
    /\ UNCHANGED <<cancelled, activeBackgroundWorkers, ntripMu, Client, Stream,
                   ntripStatus, lastError, maxConnectAttempts, nStreams,
                   closedStreams, openHandles, relayVars, closeVars,
                   facadeVars,
                   vrsVars>>

Facade ==
    \/ Position \/ PositionSensor \/ LinearVelocity \/ AngularVelocity
    \/ CompassHeading \/ Orientation \/ PassthroughSensor \/ FacadeReturn
    \/ SetLastPosition

\* ------------------------------------------------------------------- Next
Next == Relay \/ Close \/ Facade

Spec == Init /\ [][Next]_vars

\* the relay task and Close are scheduled fairly: every blocking call of
\* either thread eventually returns
LiveSpec == Init /\ [][Next]_vars /\ WF_vars(Relay) /\ WF_vars(Close)

\* ------------------------------------------- rtkSerial: the VRS session
\* lines the caster can send, as their space-separated words
Ok200Line == <<"HTTP/1.1", "200", "OK">>
Bad401Line == <<"HTTP/1.1", "401", "Unauthorized">>
IcyLine == <<"ICY", "200", "OK">>
HeaderLine == <<"Ntrip-Version:", "Ntrip/2.0">>
ServerLines == {Ok200Line, Bad401Line, IcyLine, HeaderLine}

\* strings.HasPrefix(string(line), "HTTP/1.1 ")
HasStatusPrefix(l) == Len(l) > 1 /\ l[1] = "HTTP/1.1"

\* strings.Contains(string(line), "200 OK")
Contains200OK(l) ==
    \E i \in 1..(Len(l) - 1) : l[i] = "200" /\ l[i + 1] = "OK"

\* the bytes the correction writer can deliver
Alphabet == {"$", "G", "A"}

\* what g.correctionWriter.Read(p) can store in a p of length n
Reads(n) == UNION {[1..k -> Alphabet] : k \in 0..n}

\* containsGGAMessage: strings.Contains(string(data), "GGA")
containsGGAMessage(data) ==
    \E i \in 1..(Len(data) - 2) :
        data[i] = "G" /\ data[i + 1] = "G" /\ data[i + 2] = "A"

\* sendGGAMessage returns (r, e)
SendGGAReturn(r, e) ==
    /\ vret' = [rw |-> r, err |-> e]
    /\ vpc' = "idle"

\* sendGGAMessage: if !g.isConnected { g.rw = g.connectToVirtualBase() }
SendGGAMessage ==
    /\ vpc = "idle"
    /\ vpc' = (IF ~isConnected THEN "lock" ELSE "loop")
    /\ line' = <<>>
    /\ connErr' = Nil
    /\ buffer' = <<>>
    /\ ggaMessage' = <<>>
    /\ UNCHANGED <<isConnected, rw, urlMutex, conn, nConns, okSeen, vret,
                   i2cVars>>

\* ConnectToVirtualBaseFail that leaves g.rw as it was
ConnectToVirtualBaseFailKeepsRw(e) ==
    /\ connErr' = e
    /\ isConnected' = FALSE
    /\ conn' = 0
    /\ vpc' = "loop"
    /\ UNCHANGED <<urlMutex, rw>>

\* connectToVirtualBase returns nil after the error e, the mutex still
\* held: g.rw = nil
ConnectToVirtualBaseFail(e) ==
    /\ connErr' = e
    /\ isConnected' = FALSE
    /\ rw' = 0
    /\ conn' = 0
    /\ vpc' = "loop"
    /\ UNCHANGED urlMutex

\* connectToVirtualBase: g.urlMutex.Lock()
ConnectToVirtualBaseLock ==
    /\ vpc = "lock"
    /\ urlMutex = "free"
    /\ urlMutex' = "held"
    /\ vpc' = "dial"
    /\ UNCHANGED <<isConnected, rw, conn, nConns, okSeen, vret, line, connErr,
                   buffer, ggaMessage, i2cVars>>

\* connectToVirtualBase: net.Dial("tcp", serverAddr)
ConnectToVirtualBaseDial ==
    /\ vpc = "dial"
    /\ \/ /\ nConns < MaxConns
          /\ nConns' = nConns + 1
          /\ conn' = nConns + 1
          /\ vpc' = "hdr_write"
          /\ UNCHANGED <<isConnected, rw, urlMutex, connErr>>
       \/ /\ ConnectToVirtualBaseFail(DialErr)
          /\ UNCHANGED nConns
    /\ UNCHANGED <<okSeen, vret, line, buffer, ggaMessage, i2cVars>>

\* connectToVirtualBase: rw.Write([]byte(httpHeaders))
ConnectToVirtualBaseWrite ==
    /\ vpc = "hdr_write"
    /\ \/ /\ vpc' = "hdr_flush"
          /\ UNCHANGED <<isConnected, rw, urlMutex, conn, connErr>>
       \/ ConnectToVirtualBaseFail(WriteErr)
    /\ UNCHANGED <<nConns, okSeen, vret, line, buffer, ggaMessage, i2cVars>>

\* connectToVirtualBase: rw.Flush(); on success unlock, isConnected = true
\* and the new connection is returned and stored in g.rw
ConnectToVirtualBaseFlush ==
    /\ vpc = "hdr_flush"
    /\ \/ /\ urlMutex' = "free"
          /\ isConnected' = TRUE
          /\ rw' = conn
          /\ conn' = 0
          /\ vpc' = "loop"
          /\ UNCHANGED connErr
       \/ ConnectToVirtualBaseFail(FlushErr)
    /\ UNCHANGED <<nConns, okSeen, vret, line, buffer, ggaMessage, i2cVars>>

\* sendGGAMessage: head of the read loop, g.rw.Reader == nil ||
\* g.rw.Writer == nil; with g.rw nil the field access panics
SendGGALoop ==
    /\ vpc = "loop"
    /\ vpc' = (IF rw = 0 THEN "panic" ELSE "readline")
    /\ UNCHANGED <<isConnected, rw, urlMutex, conn, nConns, okSeen, vret, line,
                   connErr, buffer, ggaMessage, i2cVars>>

\* SendGGAReadLine that keeps the connection after an EOF
SendGGAReadLineKeepsConn ==
    /\ vpc = "readline"
    /\ \/ /\ SendGGAReturn(0, EOF)
          /\ line' = <<>>
          /\ UNCHANGED <<rw, isConnected, okSeen>>
       \/ /\ SendGGAReturn(0, ReadErr)
          /\ line' = <<>>
          /\ UNCHANGED <<rw, isConnected, okSeen>>
       \/ \E l \in ServerLines :
             /\ line' = l
             /\ IF HasStatusPrefix(l)
                THEN IF Contains200OK(l)
                     THEN /\ isConnected' = TRUE
                          /\ okSeen' = okSeen \cup {rw}
                          /\ vpc' = "gga"
                          /\ UNCHANGED <<rw, vret>>
                     ELSE /\ isConnected' = FALSE
                          /\ SendGGAReturn(0, Nil)
                          /\ UNCHANGED <<rw, okSeen>>
                ELSE /\ vpc' = "loop"
                     /\ UNCHANGED <<rw, isConnected, okSeen, vret>>
    /\ UNCHANGED <<urlMutex, conn, nConns, connErr, buffer, ggaMessage,
                   i2cVars>>

\* sendGGAMessage: line, _, err := g.rw.ReadLine() and the status check;
\* on a status line without 200 OK the returned err is ReadLine's nil
SendGGAReadLine ==
    /\ vpc = "readline"
    /\ \/ /\ rw' = 0
          /\ isConnected' = FALSE
          /\ SendGGAReturn(0, EOF)
          /\ line' = <<>>
          /\ UNCHANGED okSeen
       \/ /\ SendGGAReturn(0, ReadErr)
          /\ line' = <<>>
          /\ UNCHANGED <<rw, isConnected, okSeen>>
       \/ \E l \in ServerLines :
             /\ line' = l
             /\ IF HasStatusPrefix(l)
                THEN IF Contains200OK(l)
                     THEN /\ isConnected' = TRUE
                          /\ okSeen' = okSeen \cup {rw}
                          /\ vpc' = "gga"
                          /\ UNCHANGED <<rw, vret>>
                     ELSE /\ isConnected' = FALSE
                          /\ SendGGAReturn(0, Nil)
                          /\ UNCHANGED <<rw, okSeen>>
                ELSE /\ vpc' = "loop"
                     /\ UNCHANGED <<rw, isConnected, okSeen, vret>>
    /\ UNCHANGED <<urlMutex, conn, nConns, connErr, buffer, ggaMessage,
                   i2cVars>>

\* SendGGAGetMessage that tests for the full buffer before it looks for GGA
SendGGAGetMessageFullFirst ==
    /\ vpc = "gga"
    /\ \/ /\ SendGGAReturn(0, CorrectionReadErr)
          /\ UNCHANGED <<buffer, ggaMessage>>
       \/ \E chunk \in Reads(BufferLen - Len(buffer)) :
             /\ buffer' = buffer \o chunk
             /\ IF Len(buffer \o chunk) >= BufferLen
                THEN /\ SendGGAReturn(0, GGANotFoundErr)
                     /\ UNCHANGED ggaMessage
                ELSE IF containsGGAMessage(buffer \o chunk)
                     THEN /\ ggaMessage' = buffer \o chunk
                          /\ vpc' = "write"
                          /\ UNCHANGED vret
                     ELSE UNCHANGED <<vpc, vret, ggaMessage>>
    /\ UNCHANGED <<isConnected, rw, urlMutex, conn, nConns, okSeen, line,
                   connErr, i2cVars>>

\* sendGGAMessage: ggaMessage, err := g.getGGAMessage(), one iteration of
\* getGGAMessage's read loop per step
SendGGAGetMessage ==
    /\ vpc = "gga"
    /\ \/ /\ SendGGAReturn(0, CorrectionReadErr)
          /\ UNCHANGED <<buffer, ggaMessage>>
       \/ \E chunk \in Reads(BufferLen - Len(buffer)) :
             /\ buffer' = buffer \o chunk
             /\ IF containsGGAMessage(buffer \o chunk)
                THEN /\ ggaMessage' = buffer \o chunk
                     /\ vpc' = "write"
                     /\ UNCHANGED vret
                ELSE IF Len(buffer \o chunk) >= BufferLen
                     THEN /\ SendGGAReturn(0, GGANotFoundErr)
                          /\ UNCHANGED ggaMessage
                     ELSE UNCHANGED <<vpc, vret, ggaMessage>>
    /\ UNCHANGED <<isConnected, rw, urlMutex, conn, nConns, okSeen, line,
                   connErr, i2cVars>>

\* sendGGAMessage: g.rw.WriteString(string(ggaMessage))
SendGGAWrite ==
    /\ vpc = "write"
    /\ \/ vpc' = "flush" /\ UNCHANGED vret
       \/ SendGGAReturn(0, WriteErr)
    /\ UNCHANGED <<isConnected, rw, urlMutex, conn, nConns, okSeen, line,
                   connErr, buffer, ggaMessage, i2cVars>>

\* sendGGAMessage: g.rw.Flush() and return g.rw, nil
SendGGAFlush ==
    /\ vpc = "flush"
    /\ \/ SendGGAReturn(rw, Nil)
       \/ SendGGAReturn(0, FlushErr)
    /\ UNCHANGED <<isConnected, rw, urlMutex, conn, nConns, okSeen, line,
                   connErr, buffer, ggaMessage, i2cVars>>

VrsNext ==
    \/ SendGGAMessage \/ ConnectToVirtualBaseLock \/ ConnectToVirtualBaseDial
    \/ ConnectToVirtualBaseWrite \/ ConnectToVirtualBaseFlush \/ SendGGALoop
    \/ SendGGAReadLine \/ SendGGAGetMessage \/ SendGGAWrite \/ SendGGAFlush

\* the VRS session of rtkSerial on its own
VrsSpec == Init /\ [][VrsNext]_vars

\* ----------------------------------------------------------------- claims
\* Close returned through one of its early error returns
CloseReturnedEarly == cpc = "returned" /\ closeRet \in {NmeaCloseErr, StreamCloseErr}

\* C1: when Close has returned, on any return path, the relay task has
\* signalled completion.
C1_CloseReturnsAfterRelayDone ==
    cpc = "returned" => activeBackgroundWorkers = 0

\* C2: Close closes or nils Client or Stream only after the relay task
\* has signalled completion.
C2_ReleaseAfterRelayDone ==
    [][ (\/ cpc = "client" /\ cpc' # cpc /\ Client # "nil"
         \/ cpc = "stream" /\ cpc' # cpc /\ Stream # 0)
        => activeBackgroundWorkers = 0 ]_vars

\* C3: the relay task never calls IsCasterAlive or GetStream on a client
\* reference that Close has set to nil, and its scanner never reads from a
\* stream that Close has closed.
C3_NoUseAfterClose ==
    [][ /\ (rpc \in {"alive", "gs_req"} /\ rpc' # rpc) => Client # "nil"
        /\ (rpc = "next" /\ rpc' # rpc) => scanner \notin closedStreams ]_vars

\* C4: when the relay task stopped because of the cancellation fired by
\* Close, Close does not return the cancellation as an error.
C4_CancellationNotReported ==
    (cpc = "returned" /\ LastErrorGet(lastError) = CanceledErr
        /\ ~CloseReturnedEarly)
    => closeRet = Nil

\* C5: under fair scheduling, once the cancellation signal has fired the
\* relay task eventually terminates, and a Close that has started
\* eventually returns.
C5_ShutdownTerminates ==
    /\ cancelled ~> (rpc = "done")
    /\ (cpc # "idle") ~> (cpc = "returned")

\* C5 witness: Close returned after a relay task that was inside the relay
\* cycle has terminated.
C5_Witness ==
    cpc = "returned" /\ rpc = "done" /\ scanner # 0 /\ ntripStatus

\* C6: a Close whose close operations succeed returns with both the Client
\* and the Stream reference nil.
C6_CloseLeavesRefsNil ==
    (cpc = "returned" /\ ~CloseReturnedEarly) => (Client = "nil" /\ Stream = 0)

\* the relay task is on the stream-reopen path of the relay cycle
OnReopen ==
    \/ rpc = "status_off" /\ msg = "nil"
    \/ /\ gsFrom = "loop"
       /\ rpc \in {"gs_loop", "gs_lock", "gs_req", "gs_attach", "read",
                   "write", "status_on"}

\* C7: after a scanner error without message the task stays alive with
\* LastError unset unless cancellation, the stream request, the first read
\* or the first write fails; once they succeeded it is back at the head of
\* the relay cycle, streaming, with the scanner on the new stream.
C7_DesyncRecovers ==
    [][ OnReopen =>
        IF rpc' = "done"
        THEN \/ panicked'
             \/ LastErrorGet(lastError') \in {CanceledErr, NoHostErr, ReadErr, WriteErr}
        ELSE /\ LastErrorGet(lastError') = Nil
             /\ (rpc = "status_on" /\ rpc' # rpc)
                => (rpc' = "loop" /\ ntripStatus' /\ scanner' = rc /\ rc # 0) ]_vars

\* C7 witness: back at the head of the relay cycle on the second stream
C7_Witness ==
    /\ rpc = "loop" /\ gsFrom = "loop" /\ ntripStatus /\ scanner = 2
    /\ LastErrorGet(lastError) = Nil /\ ~cancelled

C9_PassthroughReads ==
    [][ /\ (fpc = "idle" /\ fop' \in PassthroughOps) =>
            IF LastErrorGet(lastError) # Nil
            THEN /\ fpc' = "ret"
                 /\ fret' = [val |-> ZeroValue(fop'), alt |-> "-",
                             err |-> LastErrorGet(lastError)]
            ELSE fpc' = "sensor"
        /\ (fpc = "sensor" /\ fop \in PassthroughOps /\ fpc' # fpc) =>
            (fpc' = "ret" /\ fret' \in SensorReports(fop)) ]_vars

\* C9 witness: a velocity read passed the sensor's reading through while the
\* position cache was empty
C9_Witness ==
    /\ fpc = "ret" /\ fop = "LinearVelocity"
    /\ fret = [val |-> <<"LinearVelocity", "reading">>, alt |-> "-", err |-> Nil]
    /\ lastposition = NilPoint

\* C10: with LastError set, Position returns without reaching the sensor:
\* the cached point with altitude 0, or with an empty cache the NaN point,
\* NaN altitude and the latched error.
C10_PositionWithError ==
    [][ (fpc = "idle" /\ fop' = "Position" /\ LastErrorGet(lastError) # Nil) =>
        /\ fpc' = "ret"
        /\ IF lastposition # NilPoint
           THEN fret'.val = lastposition /\ fret'.alt = "0"
           ELSE fret' = [val |-> NaNPoint, alt |-> "NaN",
                         err |-> LastErrorGet(lastError)] ]_vars

\* C10 witness: Position answered from the cache after the relay task failed
C10_Witness ==
    /\ fpc = "ret" /\ fop = "Position" /\ rpc = "done"
    /\ lastError = <<ConnectErr(maxConnectAttempts)>>
    /\ fret = [val |-> P1, alt |-> "0", err |-> Nil]

\* Position has just returned from the delegation to the sensor
PositionDelegated == fpc = "sensor" /\ fop = "Position" /\ fpc' = "ret"

ZeroFix == [val |-> ZeroPoint, alt |-> "0", err |-> Nil]
NaNFix == [val |-> NaNPoint, alt |-> "NaN", err |-> Nil]

\* C11: on a valid fix Position returns exactly the sensor's point and
\* altitude and stores the point in the last-position cache.
C11_ValidFixReturnedAndCached ==
    [][ (PositionDelegated /\ IsValidFix(frep'))
        => (fret' = frep' /\ lastposition' = frep'.val) ]_vars

\* C12: with a valid point P cached, the fix (0,0) with altitude 0 and no
\* error makes Position return P with altitude 0 and no error.
C12_ZeroFixAnsweredFromCache ==
    [][ (PositionDelegated /\ frep' = ZeroFix /\ lastposition \in {P1, P2})
        => fret' = [val |-> lastposition, alt |-> "0", err |-> Nil] ]_vars

\* C13: with a valid point P cached, the fix (NaN, NaN) with NaN altitude
\* and no error makes Position return P, the sensor's NaN altitude and no
\* error.
C13_NaNFixAnsweredFromCache ==
    [][ (PositionDelegated /\ frep' = NaNFix /\ lastposition \in {P1, P2})
        => fret' = [val |-> lastposition, alt |-> "NaN", err |-> Nil] ]_vars

\* C13 witness: Position answered a NaN fix with the cached P1
C13_Witness ==
    /\ fpc = "ret" /\ fop = "Position" /\ frep = NaNFix /\ lastposition = P1
    /\ fret = [val |-> P1, alt |-> "NaN", err |-> Nil]

\* C14: after an earlier Position call on a valid fix, the fix (0,0) with
\* altitude 0 and no error is returned unchanged: point (0,0), altitude 0,
\* no error.
C14_ZeroFixPassedThrough ==
    [][ (PositionDelegated /\ frep' = ZeroFix /\ validFixSeen)
        => fret' = ZeroFix ]_vars

\* C14 witness: the zero fix came back after a valid fix, the caller never
\* having set the cache
C14_Witness ==
    /\ fpc = "ret" /\ fop = "Position" /\ frep = ZeroFix /\ fret = ZeroFix
    /\ validFixSeen /\ lastposition = NilPoint

\* C15: connect makes at most maxAttempts attempts and stops at the first
\* success; when all fail it has made exactly maxAttempts of them and fails
\* with the error naming that count, the client reference unchanged; with
\* maxAttempts <= 0 it fails without an attempt.
C15_ConnectAttempts ==
    [][ rpc = "connect" =>
        /\ attempts <= maxConnectAttempts \/ (attempts = 0 /\ maxConnectAttempts <= 0)
        /\ attempts' # attempts
           => (attempts < maxConnectAttempts /\ attempts' = attempts + 1
               /\ rpc' = "connect")
        /\ rpc' = "connect_set" => attempts < maxConnectAttempts
        /\ rpc' = "done"
           => /\ attempts = (IF maxConnectAttempts > 0 THEN maxConnectAttempts ELSE 0)
              /\ lastError' = <<ConnectErr(maxConnectAttempts)>>
              /\ Client' = Client ]_vars

\* C15 witness: connect gave up after MaxAttempts failed attempts
C15_Witness ==
    /\ rpc = "done" /\ maxConnectAttempts = MaxAttempts /\ attempts = MaxAttempts
    /\ lastError = <<ConnectErr(MaxAttempts)>> /\ Client = "nil"

\* the relay task is inside getStream
InGetStream == rpc \in {"gs_loop", "gs_lock", "gs_req", "gs_attach"}

\* C16 as stated: when getStream fails after a request that failed with a
\* non-ICY error, it has issued exactly maxAttempts requests and returns
\* that request's error.
C16_ExhaustsBeforeFailing ==
    [][ (rpc = "gs_loop" /\ rpc' = "done" /\ gsErr = NoHostErr)
        => (attempts = maxConnectAttempts /\ lastError' = <<NoHostErr>>) ]_vars

\* C16 amended: getStream issues at most maxAttempts requests and none
\* after a success; unless the cancellation signal fired, it fails only
\* after exactly maxAttempts requests, with the last request's non-ICY
\* error, and then attaches no stream.
C16_GetStreamAttempts ==
    [][ InGetStream =>
        /\ attempts <= maxConnectAttempts
        /\ rpc \in {"gs_lock", "gs_req"}
           => (attempts < maxConnectAttempts /\ ~success)
        /\ (rpc = "gs_loop" /\ rpc' # rpc /\ ~success
            /\ attempts = maxConnectAttempts /\ gsErr = NoHostErr)
           => (rpc' = "done" /\ lastError' = <<NoHostErr>> /\ Stream' = Stream)
        /\ (rpc = "gs_loop" /\ rpc' = "done" /\ ~cancelled)
           => (attempts = maxConnectAttempts /\ gsErr = NoHostErr
               /\ lastError' = <<NoHostErr>> /\ Stream' = Stream) ]_vars

\* C16 witness: the first getStream failed after all its requests failed
C16_Witness ==
    /\ rpc = "done" /\ gsFrom = "init" /\ lastError = <<NoHostErr>>
    /\ attempts = maxConnectAttempts /\ maxConnectAttempts = MaxAttempts
    /\ Stream = 0 /\ ~cancelled

\* C17: after a stream request that failed with an ICY error getStream
\* issues no further request.
C17_IcyEndsRequests ==
    rpc \in {"gs_lock", "gs_req"} => gsErr # IcyErr

\* C18: a getStream loop iteration that starts after the cancellation
\* signal fired returns the error without a stream request and without
\* attaching a stream; a request is only issued after a check that found
\* the signal not fired.
C18_CancelCheckedEachIteration ==
    [][ (rpc = "gs_loop" /\ rpc' # rpc /\ ~success
         /\ attempts < maxConnectAttempts)
        => IF cancelled
           THEN /\ rpc' = "done" /\ lastError' = <<CanceledErr>>
                /\ Stream' = Stream /\ nStreams' = nStreams
           ELSE rpc' = "gs_lock" ]_vars

\* C18 witness: getStream ended on the cancellation check
C18_Witness ==
    /\ rpc = "done" /\ cancelled /\ lastError = <<CanceledErr>>
    /\ attempts < maxConnectAttempts

\* C19: when the relay cycle ends after the scanner returned an error
\* together with a message, LastError holds that error.
C19_ScanErrorLatched ==
    [][ (rpc = "loop" /\ ~ntripStatus /\ rpc' = "done")
        => LastErrorGet(lastError') = ScanErr ]_vars

\* C20: when the cancellation check of the relay cycle stops the task,
\* LastError holds a non-nil error.
C20_CancellationLatched ==
    [][ (rpc = "loop" /\ ntripStatus /\ cancelled /\ rpc' = "done")
        => LastErrorGet(lastError') # Nil ]_vars

\* C21: every message the scanner delivers without error is written to a
\* transport handle before the scanner delivers the next one.
C21_MessagesWritten ==
    [][ (rpc = "next" /\ rpc' = "close" /\ msg' = "msg") => ~unwritten ]_vars

\* C22: when the relay task has returned, every transport handle it
\* opened has been closed.
C22_NoHandleLeftOpen ==
    rpc = "done" => openHandles = 0

\* C23: the relay task holds no open transport handle while it is blocked
\* in scanner.NextMessage or Stream.Read.
C23_NoHandleAcrossRead ==
    rpc \in {"next", "read"} => openHandles = 0

\* C24: the wait-group counter added by start is decremented exactly once,
\* when receiveAndWriteI2C returns, whatever the path: it is 1 while the
\* task runs and 0 once it has returned.
C24_DoneExactlyOnce ==
    activeBackgroundWorkers = (IF rpc = "done" THEN 0 ELSE 1)

\* C24 witness: the task has returned and a Close at its wait is released
C24_Witness ==
    rpc = "done" /\ activeBackgroundWorkers = 0 /\ cpc = "wait"

\* C25: when connect fails, LastError is set to the connect error and the
\* task terminates; no handle has been opened, no stream requested, and
\* the returned task takes no further step.
C25_ConnectFailureFatal ==
    [][ /\ (rpc = "connect" /\ attempts >= maxConnectAttempts /\ rpc' # rpc)
           => /\ rpc' = "done"
              /\ LastErrorGet(lastError') = ConnectErr(maxConnectAttempts)
              /\ openHandles' = 0 /\ nStreams' = 0 /\ Stream' = 0
              /\ gsErr' = Nil
        /\ rpc = "done"
           => (rpc' = "done" /\ openHandles' = openHandles
               /\ nStreams' = nStreams) ]_vars

\* C25 witness: the task ended on a failed connect with one attempt allowed
C25_Witness ==
    /\ rpc = "done" /\ maxConnectAttempts = 1 /\ attempts = 1
    /\ LastErrorGet(lastError) = ConnectErr(1)
    /\ openHandles = 0 /\ nStreams = 0

\* C26: a failed baud-rate command leaves LastError unset and the task goes
\* on to the sentence-mask command; a failed sentence-mask or update-rate
\* command sets LastError and ends the task; getStream is first called
\* only by the step in which the update-rate command succeeded.
C26_ReceiverConfiguration ==
    [][ /\ (rpc = "cmd251" /\ rpc' # rpc)
           => (rpc' = "cmd314" /\ lastError' = lastError)
        /\ (rpc \in {"cmd314", "cmd220"} /\ rpc' # rpc /\ outerErr' # Nil)
           => (rpc' = "done" /\ LastErrorGet(lastError') = outerErr'
               /\ nStreams' = 0)
        /\ (rpc = "cmd314" /\ rpc' # rpc /\ outerErr' = Nil)
           => rpc' = "cmd220"
        /\ (rpc' = "gs_loop" /\ gsFrom' = "init" /\ ~InGetStream)
           => (rpc = "cmd220" /\ outerErr' = Nil
               /\ LastErrorGet(lastError) = Nil) ]_vars

\* C26 witness: the baud-rate command failed and the task went on
C26_Witness ==
    rpc = "cmd314" /\ outerErr = WriteErr /\ lastError = NewLastError

\* C27: at most one correction stream handed out by the caster is open at
\* any time.
C27_OneStreamOpen ==
    Cardinality((1..nStreams) \ closedStreams) <= 1

\* C28: the stream reference is non-nil only while ntripStatus is true.
C28_StreamOnlyWhileStreaming ==
    Stream # 0 => ntripStatus

\* C29: ntripMu is not held by the relay task during the stream request,
\* nor by Close while it closes the underlying sensor or the stream.
C29_NoLockAcrossBlockingCall ==
    /\ rpc = "gs_req" => ntripMu # "relay"
    /\ cpc \in {"nmea", "stream"} => ntripMu # "close"

\* C30: whenever isConnected is true the session's connection is non-nil
\* and a 200 OK status line has been read on it.
C30_ConnectedImpliesHandshake ==
    isConnected => (rw # 0 /\ rw \in okSeen)

\* C31: a status line without "200 OK" makes sendGGAMessage return no
\* connection and a non-nil error, with isConnected false.
C31_BadStatusFails ==
    [][ (vpc = "readline" /\ line' = Bad401Line)
        => (vpc' = "idle" /\ vret'.rw = 0 /\ vret'.err # Nil
            /\ ~isConnected') ]_vars

\* the last sendGGAMessage call ended on a read error or a non-200 status
VrsCallFailedOnRead ==
    vret.err \in {EOF, ReadErr} \/ vret = [rw |-> 0, err |-> Nil]

\* C32: after a sendGGAMessage call that hit a read error or a non-200
\* status line, the next call starts by connecting anew.
C32_NoReuseAfterFailure ==
    [][ (vpc = "idle" /\ vpc' # "idle" /\ VrsCallFailedOnRead)
        => vpc' = "lock" ]_vars

\* C33: on EOF from ReadLine the connection reference is dropped,
\* isConnected is false and the call returns the EOF error; the next call
\* takes the mutex and dials.
C33_EOFResets ==
    [][ /\ (vpc = "readline" /\ vpc' = "idle" /\ vret'.err = EOF)
           => (rw' = 0 /\ ~isConnected' /\ vret'.rw = 0)
        /\ (vpc = "idle" /\ vret.err = EOF)
           => /\ rw = 0 /\ ~isConnected /\ urlMutex = "free"
              /\ vpc' # vpc => vpc' = "lock"
        /\ (vpc = "lock" /\ vret.err = EOF /\ vpc' # vpc)
           => vpc' = "dial" ]_vars

\* C33 witness: the call after an EOF has dialed a second connection
C33_Witness ==
    vpc = "hdr_write" /\ vret.err = EOF /\ conn = 2 /\ rw = 0

\* C34: a failed dial, header write or flush in connectToVirtualBase
\* leaves isConnected false and g.rw nil.
C34_ConnectFailure ==
    [][ (vpc \in {"dial", "hdr_write", "hdr_flush"} /\ vpc' # vpc)
        => /\ connErr' # Nil
              => (~isConnected' /\ rw' = 0 /\ vpc' = "loop"
                  /\ connErr' = (CASE vpc = "dial" -> DialErr
                                   [] vpc = "hdr_write" -> WriteErr
                                   [] vpc = "hdr_flush" -> FlushErr))
           /\ (vpc' = "loop" /\ connErr' = Nil)
              => (vpc = "hdr_flush" /\ rw' = conn /\ rw' # 0) ]_vars

\* C34 witness: the flush failed on a reconnect after a non-200 status
C34_Witness ==
    /\ vpc = "loop" /\ connErr = FlushErr /\ ~isConnected /\ rw = 0
    /\ vret = [rw |-> 0, err |-> Nil] /\ nConns = 2

\* C35: sendGGAMessage does not wait for a status line on a connection on
\* which the 200 OK was already read.
C35_NoSecondHandshake ==
    vpc = "readline" => rw \notin okSeen

\* C36: getGGAMessage never holds more than len(buffer) bytes; it returns
\* all bytes read so far exactly when they contain "GGA", the not-found
\* error exactly when the buffer is full without it, and a read error as
\* it is.
C36_GetGGAMessage ==
    [][ vpc = "gga" =>
        /\ Len(buffer) < BufferLen /\ ~containsGGAMessage(buffer)
        /\ Len(buffer') <= BufferLen
        /\ containsGGAMessage(buffer')
           <=> (vpc' = "write" /\ ggaMessage' = buffer')
        /\ (~containsGGAMessage(buffer') /\ Len(buffer') = BufferLen)
           => (vpc' = "idle" /\ vret' = [rw |-> 0, err |-> GGANotFoundErr])
        /\ vpc' = "idle"
           => \/ /\ vret' = [rw |-> 0, err |-> GGANotFoundErr]
                 /\ Len(buffer') = BufferLen
              \/ /\ vret' = [rw |-> 0, err |-> CorrectionReadErr]
                 /\ buffer' = buffer ]_vars

\* C36 witness: GGA was completed by the last byte the buffer can hold
C36_Witness ==
    /\ vpc = "write" /\ ggaMessage = buffer /\ Len(buffer) = BufferLen
    /\ buffer[BufferLen] = "A" /\ buffer[1] = "$"

\* C37: urlMutex is held only inside connectToVirtualBase.
C37_MutexReleased ==
    vpc \notin {"dial", "hdr_write", "hdr_flush"} => urlMutex = "free"

\* C38: sendGGAMessage never dereferences a nil g.rw.
C38_NoNilDereference ==
    vpc # "panic"

\* C39: when getStream returns without error the stream reference is
\* non-nil.
C39_StreamAttached ==
    [][ (rpc = "gs_attach" /\ rpc' = "read") => Stream' # 0 ]_vars

\* C40: the point Position returns is never nil.
C40_PositionNeverNil ==
    (fpc = "ret" /\ fop = "Position") => fret.val # NilPoint

====
